---- MODULE Spec2Model ----
(***************************************************************************)
(* A model of the blockchain e-voting core: the ledgers and their replay   *)
(* (base.py VoteLedger / VoterLedger), the block chain (base.py            *)
(* Blockchain) and the nodes with their transaction buckets (base.py Node, *)
(* VotingComputer, VoterComputer, BallotGenerator).                        *)
(*                                                                         *)
(* Four specifications share the variables:                                *)
(*   SpecLedger  replay of transaction batches on the two ledgers          *)
(*   SpecChain   add_block / add_block_2 / remove_block on one Blockchain  *)
(*   SpecNet     issuance, voting and broadcast on the nodes, over time    *)
(*   SpecAdmit   the same operations and add_transaction from outside      *)
(***************************************************************************)
EXTENDS Integers, Sequences, FiniteSets, TLC

(***************************************************************************)
(* The election of setup.py: two voters on the roll (setup.py 98-99) and   *)
(* as many ballots as voters (setup.py 104).                               *)
(***************************************************************************)
NumVoters == 2
NumBallots == 2

(***************************************************************************)
(* Bounds of the model.                                                    *)
(***************************************************************************)
NumChoices == 1
NumBlocks == 3
NumVotingComputers == 2
NumVoterComputers == 2
MaxVoterTx == 1
MaxDeliveries == 1
MaxClock == 1
TicksPerMinute == 2
MaxBatch == 2
MaxTally == 2

(***************************************************************************)
(* constants.py STATE                                                      *)
(***************************************************************************)
NOT_VOTED == "not voted"
VOTED == "voted"
CREATED == "ballot_created"
ISSUED == "ballot_issued"
USED == "ballot_used"

\* VoteTransaction.allowed_states / VoterTransaction.allowed_states
VoteAllowedStates == {CREATED, ISSUED, USED}
VoterAllowedStates == {NOT_VOTED, VOTED}

\* range(2) of VoteLedger.apply_transactions
ReplayPasses == 2

\* the ballots of BallotGenerator.generate_ballots, in list order; every
\* ballot owns deep copies of the items, hence its own Choice objects,
\* identified here by <<ballot, position>>
Ballots == 1..NumBallots
Choices == 1..NumChoices
Voters == 1..NumVoters
Blocks == 1..NumBlocks

\* ballots[0] of VoteLedger.__init__: the candidates' counters are keyed by
\* the Choice objects of this ballot only
FirstBallot == 1

NoError == "none"

\* Python's None, as a block reference: Blockchain.__init__ sets
\* current_block = None, Block.__init__ defaults prev_block=None
None == 0

VARIABLES
  chosen,         \* chosen[b][c]: Choice.chosen of choice c of ballot b
  vote_ledger,    \* the VoteLedger: ballots, collective totals, candidate votes
  voter_ledger,   \* the VoterLedger: voters, collective totals
  raised,         \* the exception the last operation ended with, or NoError
  num_blocks,     \* the Block objects constructed so far are 1..num_blocks
  previous_block, \* previous_block[b]: Block.previous_block of block b
  current_block,  \* Blockchain.current_block
  chain_call,     \* the last call on a Block or the Blockchain, and its block
  txs,            \* the Transaction objects constructed so far, by identity
  pending,        \* pending[n]: VotingComputer.pending_transactions
  verified,       \* verified[n]: Node.verified_transactions
  rejected,       \* rejected[n]: Node.rejected_transactions
  available_ballots, \* BallotGenerator.available_ballots
  paper_trail,    \* the ballots submitted (setup.py paper_trail)
  now,            \* the clock datetime.datetime.now() reads, in ticks
  deliveries      \* the add_transaction calls made from outside: node, transaction

ledgerVars == <<vote_ledger, voter_ledger>>
chainVars == <<num_blocks, previous_block, current_block, chain_call>>
netVars == <<txs, pending, verified, rejected, available_ballots, paper_trail,
             now, deliveries>>
vars == <<chosen, ledgerVars, chainVars, netVars, raised>>

(***************************************************************************)
(* election.py                                                             *)
(***************************************************************************)
\* Ballot.get_selected_choices: the ballot's own Choice objects that are chosen
get_selected_choices(b) == {c \in Choices : chosen[b][c]}

(***************************************************************************)
(* Ledgers                                                                 *)
(***************************************************************************)
\* VoteLedger.__init__
VoteLedgerInit ==
  [ballots |-> [b \in Ballots |-> CREATED],
   totals  |-> [s \in VoteAllowedStates |->
                  IF s = CREATED THEN NumBallots ELSE 0],
   votes   |-> [c \in Choices |-> 0]]

\* VoterLedger.__init__
VoterLedgerInit ==
  [voters |-> [v \in Voters |-> NOT_VOTED],
   totals |-> [s \in VoterAllowedStates |->
                 IF s = NOT_VOTED THEN NumVoters ELSE 0]]

\* The transaction objects a batch is drawn from: one object per content and
\* pair of allowed states (Transaction.__init__ accepts any pair of allowed
\* states).  The same object may be listed in a batch more than once.
VoteTxPool ==
  [content : Ballots, previous_state : VoteAllowedStates,
   new_state : VoteAllowedStates]

VoterTxPool ==
  [content : Voters, previous_state : VoterAllowedStates,
   new_state : VoterAllowedStates]

Batches(pool, n) == UNION {[1..k -> pool] : k \in 0..n}

Range(seq) == {seq[i] : i \in 1..Len(seq)}

\* The collective totals after one transaction is applied (base.py 355-356)
MutTotalsNoDecrement(totals, old_state, new_state) ==
  [totals EXCEPT ![new_state] = @ + 1]

UpdateTotals(totals, old_state, new_state) ==
  LET dec == [totals EXCEPT ![old_state] = @ - 1]
  IN  [dec EXCEPT ![new_state] = @ + 1]

\* One transaction of VoteLedger.apply_transactions whose previous_state
\* equals the ballot's recorded state (base.py 351-363).  st is the running
\* state of the call: the ledger, the _reiterate attribute of the batch's
\* transactions, the exception raised, and a log of what was applied.
\* self.ledger[candidate] raises KeyError for a selected Choice of a ballot
\* other than ballots[0]: the ballot's state and the totals are then already
\* updated, and _reiterate is not assigned.
\* One transaction of VoteLedger.apply_transactions whose previous_state
\* equals the ballot's recorded state, with the assignment of the ballot's
\* new state (base.py 352) left out
MutApplyKeepsState(st, tx) ==
  [st EXCEPT !.ledger.totals =
               UpdateTotals(@, st.ledger.ballots[tx.content], tx.new_state),
             !.applied = Append(@, [tx |-> tx,
                                    old_state |-> st.ledger.ballots[tx.content],
                                    selected |-> {}])]

VoteApplyOne(st, tx) ==
  LET ballot    == tx.content
      old_state == st.ledger.ballots[ballot]
      selected  == get_selected_choices(ballot)
      moved     == [st.ledger EXCEPT
                      !.ballots[ballot] = tx.new_state,
                      !.totals = UpdateTotals(@, old_state, tx.new_state)]
      entry     == [tx |-> tx, old_state |-> old_state, selected |-> selected]
  IN  IF selected # {} /\ ballot # FirstBallot
        THEN [st EXCEPT !.ledger = moved,
                        !.raised = "KeyError",
                        !.applied = Append(@, entry)]
        ELSE [st EXCEPT
                !.ledger = [moved EXCEPT !.votes =
                              [c \in Choices |->
                                 IF c \in selected THEN @[c] + 1 ELSE @[c]]],
                !.reiterate[tx] = "False",
                !.applied = Append(@, entry)]

\* the loops of VoteLedger.apply_transactions with the `continue` of a
\* transaction that does not line up (base.py 349) turned into a return
RECURSIVE MutLoopStopsAtUnresolved(_, _, _, _)
MutLoopStopsAtUnresolved(st, transactions, iteration, i) ==
  IF st.raised # NoError \/ iteration = ReplayPasses THEN st
  ELSE IF i > Len(transactions)
    THEN MutLoopStopsAtUnresolved(st, transactions, iteration + 1, 1)
  ELSE LET tx == transactions[i] IN
    IF iteration = 1 /\ st.reiterate[tx] = "False"
      THEN MutLoopStopsAtUnresolved(st, transactions, iteration, i + 1)
    ELSE IF tx.previous_state # st.ledger.ballots[tx.content]
      THEN [st EXCEPT !.reiterate[tx] = "True"]
    ELSE MutLoopStopsAtUnresolved(VoteApplyOne(st, tx), transactions,
                                  iteration, i + 1)

\* The two nested loops of VoteLedger.apply_transactions (base.py 336-363)
RECURSIVE VoteLoop(_, _, _, _)
VoteLoop(st, transactions, iteration, i) ==
  IF st.raised # NoError \/ iteration = ReplayPasses THEN st
  ELSE IF i > Len(transactions)
    THEN VoteLoop(st, transactions, iteration + 1, 1)
  ELSE LET tx == transactions[i] IN
    IF iteration = 1 /\ st.reiterate[tx] = "False"
      THEN VoteLoop(st, transactions, iteration, i + 1)
    ELSE IF tx.previous_state # st.ledger.ballots[tx.content]
      THEN VoteLoop([st EXCEPT !.reiterate[tx] = "True"],
                    transactions, iteration, i + 1)
    ELSE VoteLoop(VoteApplyOne(st, tx), transactions, iteration, i + 1)

\* VoteLedger.apply_transactions.  Pass 0 assigns _reiterate on every
\* transaction of the batch before pass 1 reads it, so the value an earlier
\* call left on a transaction is never read: the attribute starts "unset".
VoteLedger_apply_transactions(ledger, transactions) ==
  VoteLoop([ledger    |-> ledger,
            reiterate |-> [t \in Range(transactions) |-> "unset"],
            raised    |-> NoError,
            applied   |-> <<>>,
            returned  |-> {}],
           transactions, 0, 1)

\* The loop of VoterLedger.apply_transactions (base.py 393-407).  A
\* transaction that does not line up is skipped with no mark on it.
RECURSIVE VoterLoop(_, _, _)
VoterLoop(st, transactions, i) ==
  IF i > Len(transactions) THEN st
  ELSE LET tx == transactions[i]
           voter == tx.content
           current_state == st.ledger.voters[voter]
       IN IF current_state # tx.previous_state
            THEN VoterLoop(st, transactions, i + 1)
            ELSE VoterLoop(
                   [st EXCEPT
                      !.ledger.voters[voter] = tx.new_state,
                      !.ledger.totals =
                         UpdateTotals(@, tx.previous_state, tx.new_state),
                      !.applied = Append(@, [tx |-> tx,
                                             old_state |-> current_state,
                                             selected |-> {}])],
                   transactions, i + 1)

\* VoterLedger.apply_transactions; like VoteLedger's it returns None, which
\* is the empty report
VoterLedger_apply_transactions(ledger, transactions) ==
  VoterLoop([ledger    |-> ledger,
             reiterate |-> [t \in Range(transactions) |-> "unset"],
             raised    |-> NoError,
             applied   |-> <<>>,
             returned  |-> {}],
            transactions, 1)

(***************************************************************************)
(* Nodes, signatures and transactions                                      *)
(***************************************************************************)
\* The nodes set_up_election creates.  A node's key pair is its own, so the
\* node stands for its public key and for the holder of its private key.
VotingNodes == {[role |-> "VotingComputer", id |-> i] : i \in 1..NumVotingComputers}
VoterNodes == {[role |-> "VoterComputer", id |-> i] : i \in 1..NumVoterComputers}
ballot_generator == [role |-> "BallotGenerator", id |-> 1]
Nodes == VotingNodes \cup VoterNodes \cup {ballot_generator}

\* Node.node_mapping after set_up_nodes / set_up_election: the other nodes of
\* the node's own class (set_node_mapping pops the node itself); the ballot
\* generator is given the voting computers.
node_mapping(n) ==
  IF n.role = "VotingComputer" THEN VotingNodes \ {n}
  ELSE IF n.role = "VoterComputer" THEN VoterNodes \ {n}
  ELSE VotingNodes

\* Node.is_node_in_network, and its override in VotingComputer
is_node_in_network(n, public_key) ==
  IF n.role = "VotingComputer"
    THEN public_key \in node_mapping(n) \/ public_key = ballot_generator
    ELSE public_key \in node_mapping(n)

\* only VotingComputer.__init__ creates pending_transactions
HasPending(n) == n.role = "VotingComputer"

\* utils.get_formatted_time_str: "%Y-%m-%d %H:%M" keeps the minute
get_formatted_time_str(t) == t \div TicksPerMinute

\* utils.sign: a signature is bound to the signer's key and to the message;
\* PSS salts it, so that signing again gives another signature
sign(message, private_key, salt) ==
  [signer |-> private_key, message |-> message, salt |-> salt]

\* utils.verify_signature
verify_signature(message, signature, public_key) ==
  signature.signer = public_key /\ signature.message = message

\* Choice.get_signature_contents
Choice_get_signature_contents(b, c, include_chosen) ==
  IF include_chosen THEN <<c, chosen[b][c]>> ELSE <<c>>

\* Ballot.get_signature_contents / BallotItem.get_signature_contents
Ballot_get_signature_contents(b, include_chosen) ==
  <<b, [c \in Choices |-> Choice_get_signature_contents(b, c, include_chosen)]>>

\* Transaction.get_signature_contents; a Voter's contents are its id
get_signature_contents(tx, include_chosen) ==
  <<IF tx.kind = "VoteTransaction"
      THEN Ballot_get_signature_contents(tx.content, include_chosen)
      ELSE <<tx.content>>,
    tx.previous_state, tx.new_state>>
  \o (IF tx.timestamped THEN <<get_formatted_time_str(tx.time)>> ELSE <<>>)

\* Transaction.verify_transaction: the contents are recomputed with the
\* transaction's signature_kwargs
MutVerifyAlways(tx) == TRUE

verify_transaction(tx) ==
  verify_signature(get_signature_contents(tx, tx.include_chosen),
                   tx.signature, tx.node)

\* the time attribute of a transaction that has none
NoTime == 0 - 1

\* Transaction.__init__ (base.py 218-229) for content and states that pass
\* its checks; signature_kwargs is {include_chosen: False} or empty, and
\* Choice.get_signature_contents defaults include_chosen to True
Transaction(kind, content, node, previous_state, new_state, timestamped, include_chosen) ==
  LET unsigned == [kind |-> kind, content |-> content, node |-> node,
                   previous_state |-> previous_state, new_state |-> new_state,
                   timestamped |-> timestamped,
                   time |-> IF timestamped THEN now ELSE NoTime,
                   include_chosen |-> include_chosen]
      message == get_signature_contents(unsigned, include_chosen)
  IN  [kind |-> kind, content |-> content, node |-> node,
       previous_state |-> previous_state, new_state |-> new_state,
       timestamped |-> timestamped,
       time |-> unsigned.time,
       include_chosen |-> include_chosen,
       signature |-> sign(message, node, 1)]

\* One transaction of VoteTransaction.timestamp_and_sign_transactions:
\* add_timestamp(time=now), then a new signature by the transaction's own
\* node over get_signature_contents() called without signature_kwargs
timestamp_and_sign(tx, time) ==
  LET stamped == [tx EXCEPT !.time = time, !.timestamped = TRUE]
  IN  [stamped EXCEPT !.signature =
         sign(get_signature_contents(stamped, TRUE), tx.node,
              tx.signature.salt + 1)]

\* the identities of the Transaction objects
IssueKey(b) ==
  [kind |-> "issue", node |-> ballot_generator, content |-> b, n |-> 1]
UseKey(node, b, k) == [kind |-> "use", node |-> node, content |-> b, n |-> k]
VoterKey(node, v, k) == [kind |-> "voter", node |-> node, content |-> v, n |-> k]

(***************************************************************************)
(* Admission                                                               *)
(***************************************************************************)
\* Node.add_transaction at node n for transaction object t, on the buckets
\* bk and the transaction objects tr.  A node other than a VotingComputer
\* has no pending_transactions: the add raises AttributeError there.
add_transaction(bk, tr, n, t) ==
  LET transaction == tr[t]
      valid == /\ is_node_in_network(n, transaction.node)
               /\ verify_transaction(transaction)
  IN  IF bk.raised # NoError THEN bk
      ELSE IF valid
        THEN IF ~transaction.timestamped
               THEN IF HasPending(n)
                      THEN [bk EXCEPT !.pending[n] = @ \cup {t}]
                      ELSE [bk EXCEPT !.raised = "AttributeError"]
               ELSE [bk EXCEPT !.verified[n] = @ \cup {t}]
        ELSE [bk EXCEPT !.rejected[n] = @ \cup {t}]

\* the buckets of all nodes, as the calls below thread them
Buckets ==
  [pending |-> pending, verified |-> verified, rejected |-> rejected,
   raised |-> NoError]

\* a list of the elements of a set, in the order the loop visits them
RECURSIVE ListOf(_)
ListOf(S) ==
  IF S = {} THEN <<>>
  ELSE LET x == CHOOSE y \in S : TRUE IN <<x>> \o ListOf(S \ {x})

\* add_transaction(t) at each node of the list, in turn
RECURSIVE AddAtEach(_, _, _, _)
AddAtEach(bk, tr, nodes, t) ==
  IF nodes = <<>> THEN bk
  ELSE AddAtEach(add_transaction(bk, tr, Head(nodes), t), tr, Tail(nodes), t)

\* the loop of VotingComputer.broadcast_transactions (base.py 102-105):
\* each pending transaction is admitted at the node itself, then at every
\* node of its mapping
RECURSIVE MutBroadcastSkipsMapping(_, _, _, _)
MutBroadcastSkipsMapping(bk, tr, n, transactions) ==
  IF transactions = <<>> THEN bk
  ELSE MutBroadcastSkipsMapping(
         AddAtEach(bk, tr, <<n>>, Head(transactions)), tr, n, Tail(transactions))

RECURSIVE BroadcastLoop(_, _, _, _)
BroadcastLoop(bk, tr, n, transactions) ==
  IF transactions = <<>> THEN bk
  ELSE BroadcastLoop(
         AddAtEach(bk, tr, <<n>> \o ListOf(node_mapping(n)), Head(transactions)),
         tr, n, Tail(transactions))

\* the state after set_up_election: no transaction yet, all ballots available
NetInit ==
  /\ txs = <<>>
  /\ pending = [n \in Nodes |-> {}]
  /\ verified = [n \in Nodes |-> {}]
  /\ rejected = [n \in Nodes |-> {}]
  /\ available_ballots = Ballots
  /\ paper_trail = {}
  /\ now = 0
  /\ deliveries = <<>>


(***************************************************************************)
(* SpecLedger                                                              *)
(***************************************************************************)
\* Blockchain.__init__, before any Block is constructed
ChainInit ==
  /\ num_blocks = 0
  /\ previous_block = [b \in Blocks |-> None]
  /\ current_block = None
  /\ chain_call = [op |-> "__init__", block |-> None]

LedgerInit ==
  /\ chosen = [b \in Ballots |-> [c \in Choices |-> FALSE]]
  /\ vote_ledger = VoteLedgerInit
  /\ voter_ledger = VoterLedgerInit

Init ==
  /\ LedgerInit
  /\ ChainInit
  /\ NetInit
  /\ raised = NoError

\* Choice.select, as process_ballot calls it on a confirmed selection
Select(b, c) ==
  /\ ~chosen[b][c]
  /\ chosen' = [chosen EXCEPT ![b][c] = TRUE]

LedgerSelect ==
  \E b \in Ballots, c \in Choices :
    /\ Select(b, c)
    /\ UNCHANGED <<ledgerVars, raised, chainVars, netVars>>

ApplyVoteTransactions ==
  \E transactions \in Batches(VoteTxPool, MaxBatch) :
    LET r == VoteLedger_apply_transactions(vote_ledger, transactions)
    IN  /\ \A c \in Choices : r.ledger.votes[c] <= MaxTally
        /\ vote_ledger' = r.ledger
        /\ raised' = r.raised
        /\ UNCHANGED <<chosen, voter_ledger, chainVars, netVars>>

ApplyVoterTransactions ==
  \E transactions \in Batches(VoterTxPool, MaxBatch) :
    LET r == VoterLedger_apply_transactions(voter_ledger, transactions)
    IN  /\ voter_ledger' = r.ledger
        /\ raised' = r.raised
        /\ UNCHANGED <<chosen, vote_ledger, chainVars, netVars>>

LedgerNext ==
  \/ LedgerSelect
  \/ ApplyVoteTransactions
  \/ ApplyVoterTransactions

SpecLedger == Init /\ [][LedgerNext]_vars

(***************************************************************************)
(* SpecChain                                                               *)
(***************************************************************************)
\* Block.__init__ (base.py 414-416): a new Block object whose previous_block
\* is prev_block, None by default.  The chain operations read and write
\* nothing of a block but previous_block; the model's blocks are the objects
\* handed to them.
NewBlock ==
  \E prev_block \in (1..num_blocks) \cup {None} :
    /\ num_blocks < NumBlocks
    /\ num_blocks' = num_blocks + 1
    /\ previous_block' = [previous_block EXCEPT ![num_blocks + 1] = prev_block]
    /\ chain_call' = [op |-> "Block", block |-> num_blocks + 1]
    /\ raised' = NoError
    /\ UNCHANGED <<current_block, chosen, ledgerVars, netVars>>

\* Blockchain.add_block: identity test against the current head
AddBlock ==
  \E block \in 1..num_blocks :
    /\ current_block' = IF previous_block[block] = current_block
                          THEN block ELSE current_block
    /\ chain_call' = [op |-> "add_block", block |-> block]
    /\ raised' = NoError
    /\ UNCHANGED <<num_blocks, previous_block, chosen, ledgerVars, netVars>>

\* Blockchain.add_block_2: relinks the block to the head, then makes it the head
AddBlock2 ==
  \E block \in 1..num_blocks :
    /\ previous_block' = [previous_block EXCEPT ![block] = current_block]
    /\ current_block' = block
    /\ chain_call' = [op |-> "add_block_2", block |-> block]
    /\ raised' = NoError
    /\ UNCHANGED <<num_blocks, chosen, ledgerVars, netVars>>

\* Blockchain.remove_block: always raises
RemoveBlock ==
  \E block \in 1..num_blocks :
    /\ chain_call' = [op |-> "remove_block", block |-> block]
    /\ raised' = "Exception"
    /\ UNCHANGED <<num_blocks, previous_block, current_block, chosen, ledgerVars,
                   netVars>>

ChainNext ==
  \/ NewBlock
  \/ AddBlock
  \/ AddBlock2
  \/ RemoveBlock

SpecChain == Init /\ [][ChainNext]_vars

(***************************************************************************)
(* SpecNet                                                                 *)
(***************************************************************************)
SetBuckets(bk) ==
  /\ pending' = bk.pending
  /\ verified' = bk.verified
  /\ rejected' = bk.rejected
  /\ raised' = bk.raised

\* the clock advances
Tick ==
  /\ now < MaxClock
  /\ now' = now + 1
  /\ UNCHANGED <<txs, pending, verified, rejected, available_ballots,
                 paper_trail, deliveries, chosen, ledgerVars, chainVars, raised>>

\* BallotGenerator.retrieve_ballot with a ballot available: a random
\* available ballot leaves the list, and create_transaction hands one
\* untimestamped Created->Issued transaction, signed without the chosen
\* flags, to add_transaction of every voting computer
\* BallotGenerator.retrieve_ballot with the removal of the ballot from
\* available_ballots (base.py 173) left out
MutRetrieveKeepsBallot ==
  \E ballot \in available_ballots :
    LET t == IssueKey(ballot)
        tx == Transaction("VoteTransaction", ballot, ballot_generator,
                          CREATED, ISSUED, FALSE, FALSE)
        tr == t :> tx @@ txs
    IN  /\ txs' = tr
        /\ SetBuckets(AddAtEach(Buckets, tr,
                                ListOf(node_mapping(ballot_generator)), t))
        /\ UNCHANGED <<available_ballots, paper_trail, now, deliveries, chosen,
                       ledgerVars, chainVars>>

RetrieveBallot ==
  \E ballot \in available_ballots :
    LET t == IssueKey(ballot)
        tx == Transaction("VoteTransaction", ballot, ballot_generator,
                          CREATED, ISSUED, FALSE, FALSE)
        tr == t :> tx @@ txs
    IN  /\ available_ballots' = available_ballots \ {ballot}
        /\ txs' = tr
        /\ SetBuckets(AddAtEach(Buckets, tr,
                                ListOf(node_mapping(ballot_generator)), t))
        /\ UNCHANGED <<paper_trail, now, deliveries, chosen, ledgerVars,
                       chainVars>>

\* BallotGenerator.retrieve_ballot with no ballot left: returns None
RetrieveNoBallot ==
  /\ available_ballots = {}
  /\ raised' = NoError
  /\ UNCHANGED <<netVars, chosen, ledgerVars, chainVars>>

\* process_ballot: the voter who holds a retrieved ballot, not yet
\* submitted, confirms a selection
NetSelect ==
  \E b \in Ballots \ (available_ballots \cup paper_trail), c \in Choices :
    /\ Select(b, c)
    /\ UNCHANGED <<netVars, ledgerVars, chainVars, raised>>

\* VotingComputer.create_transaction(ballot), as begin_voting_process calls
\* it: once for a retrieved ballot, at any voting computer, after the ballot
\* went to the paper trail
VotingCreateTransaction ==
  \E n \in VotingNodes, ballot \in Ballots \ (available_ballots \cup paper_trail) :
    LET ballot_issued ==
          \E t \in pending[n] :
            txs[t].content = ballot /\ txs[t].new_state = ISSUED
        t == UseKey(n, ballot, 1)
        tx == Transaction("VoteTransaction", ballot, n, ISSUED, USED,
                          FALSE, TRUE)
    IN  /\ paper_trail' = paper_trail \cup {ballot}
        /\ IF ballot_issued
             THEN /\ txs' = t :> tx @@ txs
                  /\ pending' = [pending EXCEPT ![n] = @ \cup {t}]
             ELSE UNCHANGED <<txs, pending>>
        /\ raised' = NoError
        /\ UNCHANGED <<verified, rejected, available_ballots, now, deliveries,
                       chosen, ledgerVars, chainVars>>

\* VotingComputer.broadcast_transactions at node n: the pending transactions
\* are timestamped and signed again, each is admitted at n and at the nodes
\* of n's mapping, and n's pending set is reset.  The result is the
\* transaction objects and the buckets the call leaves.
VotingComputer_broadcast_transactions(n) ==
  LET tr == [t \in DOMAIN txs |->
               IF t \in pending[n] THEN timestamp_and_sign(txs[t], now)
               ELSE txs[t]]
      bk == BroadcastLoop(Buckets, tr, n, ListOf(pending[n]))
  IN  [txs |-> tr, buckets |-> [bk EXCEPT !.pending[n] = {}]]

\* VotingComputer.broadcast_transactions
BroadcastTransactions ==
  \E n \in VotingNodes :
    LET r == VotingComputer_broadcast_transactions(n)
    IN  /\ txs' = r.txs
        /\ SetBuckets(r.buckets)
        /\ UNCHANGED <<available_ballots, paper_trail, now, deliveries, chosen,
                       ledgerVars, chainVars>>

\* VoterComputer.create_transaction with the broadcast (base.py 133) left out
MutVoterCreateNoBroadcast ==
  \E n \in VoterNodes, voter \in Voters :
    LET k == Cardinality({t \in DOMAIN txs : t.kind = "voter"})
        t == VoterKey(n, voter, k + 1)
        tx == Transaction("VoterTransaction", voter, n, NOT_VOTED, VOTED,
                          TRUE, TRUE)
        tr == t :> tx @@ txs
        own == [Buckets EXCEPT !.verified[n] = @ \cup {t}]
    IN  /\ k < MaxVoterTx
        /\ txs' = tr
        /\ SetBuckets(own)
        /\ UNCHANGED <<available_ballots, paper_trail, now, deliveries, chosen,
                       ledgerVars, chainVars>>

\* VoterComputer.create_transaction(voter): the node puts its own
\* transaction in its verified set and broadcasts it right away
VoterCreateTransaction ==
  \E n \in VoterNodes, voter \in Voters :
    LET k == Cardinality({t \in DOMAIN txs : t.kind = "voter"})
        t == VoterKey(n, voter, k + 1)
        tx == Transaction("VoterTransaction", voter, n, NOT_VOTED, VOTED,
                          TRUE, TRUE)
        tr == t :> tx @@ txs
        own == [Buckets EXCEPT !.verified[n] = @ \cup {t}]
    IN  /\ k < MaxVoterTx
        /\ txs' = tr
        /\ SetBuckets(AddAtEach(own, tr, ListOf(node_mapping(n)), t))
        /\ UNCHANGED <<available_ballots, paper_trail, now, deliveries, chosen,
                       ledgerVars, chainVars>>

\* Node.add_transaction called on any node with any existing transaction
AddTransaction ==
  \E n \in Nodes, t \in DOMAIN txs :
    /\ Len(deliveries) < MaxDeliveries
    /\ deliveries' = Append(deliveries, [node |-> n, tx |-> t])
    /\ SetBuckets(add_transaction(Buckets, txs, n, t))
    /\ UNCHANGED <<txs, available_ballots, paper_trail, now, chosen,
                   ledgerVars, chainVars>>

\* the operations as the nodes and the voting process call them
FlowNext ==
  \/ RetrieveBallot
  \/ RetrieveNoBallot
  \/ NetSelect
  \/ VotingCreateTransaction
  \/ BroadcastTransactions
  \/ VoterCreateTransaction

NetNext ==
  \/ Tick
  \/ FlowNext

SpecNet == Init /\ [][NetNext]_vars

(***************************************************************************)
(* SpecAdmit: the operations, and add_transaction called from outside on   *)
(* any node with any transaction, at one instant of the clock              *)
(***************************************************************************)
AdmitNext ==
  \/ FlowNext
  \/ AddTransaction

SpecAdmit == Init /\ [][AdmitNext]_vars

(***************************************************************************)
(* SpecConstruct: Transaction.__init__ called with any arguments, while    *)
(* ballots are filled in                                                   *)
(***************************************************************************)
\* the objects handed to a constructor as content: the Ballot objects and
\* the Voter objects, each with its class
Contents ==
  {[class |-> "Ballot", id |-> b] : b \in Ballots}
    \cup {[class |-> "Voter", id |-> v] : v \in Voters}

\* constants.py STATE: every state value (STATE is a reserved word here)
AllStates == {NOT_VOTED, VOTED, CREATED, ISSUED, USED}

TransactionKinds == {"VoteTransaction", "VoterTransaction"}

\* content_class and allowed_states of the two Transaction subclasses
content_class(kind) == IF kind = "VoteTransaction" THEN "Ballot" ELSE "Voter"
allowed_states(kind) ==
  IF kind = "VoteTransaction" THEN VoteAllowedStates ELSE VoterAllowedStates

\* what a constructor that raised leaves: no object
NoTransaction == [kind |-> "none"]

\* Transaction.__init__ (base.py 201-229): the type test on the content,
\* then the test of the two states, each raising Exception; then the
\* attributes and the signature
MutNoStateCheck(kind, content, node, previous_state, new_state, timestamped, include_chosen) ==
  IF content.class # content_class(kind)
    THEN [raised |-> "Exception", tx |-> NoTransaction]
    ELSE [raised |-> NoError,
          tx |-> Transaction(kind, content.id, node, previous_state, new_state,
                             timestamped, include_chosen)]

Transaction_init(kind, content, node, previous_state, new_state, timestamped, include_chosen) ==
  IF content.class # content_class(kind)
    THEN [raised |-> "Exception", tx |-> NoTransaction]
  ELSE IF ~(previous_state \in allowed_states(kind)
            /\ new_state \in allowed_states(kind))
    THEN [raised |-> "Exception", tx |-> NoTransaction]
  ELSE [raised |-> NoError,
        tx |-> Transaction(kind, content.id, node, previous_state, new_state,
                           timestamped, include_chosen)]

\* the object of the latest successful construction; an earlier one that no
\* node holds is gone
ConstructedKey ==
  [kind |-> "made", node |-> ballot_generator, content |-> None, n |-> 1]

\* what the constructor calls with any arguments end with in this state:
\* an exception and no object, or a new transaction
ConstructorOutcomes ==
  {Transaction_init(kind, content, node, previous_state, new_state,
                    timestamped, include_chosen) :
     kind \in TransactionKinds, content \in Contents, node \in Nodes,
     previous_state \in AllStates, new_state \in AllStates,
     timestamped \in BOOLEAN, include_chosen \in BOOLEAN}

\* a constructor call with any arguments: it raises, or leaves a new object
\* that is in no node's buckets
ConstructTransaction ==
  \E r \in ConstructorOutcomes :
    /\ raised' = r.raised
    /\ txs' = IF r.raised = NoError
                THEN ConstructedKey :> r.tx @@ txs
                ELSE txs
    /\ UNCHANGED <<pending, verified, rejected, available_ballots,
                   paper_trail, now, deliveries, chosen, ledgerVars,
                   chainVars>>

ConstructNext ==
  \/ LedgerSelect
  \/ ConstructTransaction

SpecConstruct == Init /\ [][ConstructNext]_vars

(***************************************************************************)
(* Properties of the ledgers, checked under SpecLedger                     *)
(***************************************************************************)
Sum(f) ==
  LET RECURSIVE SumOver(_)
      SumOver(S) == IF S = {} THEN 0
                    ELSE LET x == CHOOSE y \in S : TRUE
                         IN  f[x] + SumOver(S \ {x})
  IN  SumOver(DOMAIN f)

\* the transactions along the legal edges Created->Issued and Issued->Used
LegalVoteEdges == {<<CREATED, ISSUED>>, <<ISSUED, USED>>}
LegalVoterEdges == {<<NOT_VOTED, VOTED>>}
LegalVoteTxPool ==
  {t \in VoteTxPool : <<t.previous_state, t.new_state>> \in LegalVoteEdges}

InsertAt(seq, j, x) == SubSeq(seq, 1, j - 1) \o <<x>> \o SubSeq(seq, j, Len(seq))

\* bounds of the batches the replay properties quantify over
ReplayBatchLen == 3

\* C1: Counter invariant.  In every state reached by any sequence of
\* apply_transactions calls (any batches of allowed-state transactions, also
\* in the state a call leaves when it raises), the per-state totals of the
\* ballot ledger sum to the number of ballots it was created with, and those
\* of the voter ledger to the number of registered voters.
CounterInvariant ==
  /\ Sum(vote_ledger.totals) = NumBallots
  /\ Sum(voter_ledger.totals) = NumVoters

\* C1 witness: both ledgers have applied transactions (a ballot is Used
\* and another one has left Created, a voter is Voted).
CounterInvariantWitness ==
  /\ vote_ledger.totals[USED] = 1
  /\ vote_ledger.totals[CREATED] = 0
  /\ voter_ledger.totals[VOTED] = 1

Orderings(S) == {f \in [1..Cardinality(S) -> S] : Range(f) = S}

\* for every ballot the edges of S form a chain of legal edges that starts at
\* the ballot's recorded state
PreconditionConsistent(S) ==
  \A b \in Ballots :
    LET E == {t \in S : t.content = b}
        cur == vote_ledger.ballots[b]
    IN  \A t \in E :
          \/ t.previous_state = cur
          \/ \E u \in E : u.previous_state = cur /\ u.new_state = t.previous_state

\* C6: Order insensitivity of replay, as claimed.  From every reachable
\* ballot ledger state, every two orderings of a precondition-consistent set
\* of legal-edge transactions are replayed to the same ballot states, totals
\* and candidate votes.
OrderInsensitiveReplay ==
  \A S \in SUBSET LegalVoteTxPool :
    PreconditionConsistent(S) =>
      \A p, q \in Orderings(S) :
        VoteLedger_apply_transactions(vote_ledger, p).ledger
          = VoteLedger_apply_transactions(vote_ledger, q).ledger

\* C7: Tally counts only used ballots, as claimed.  Whenever a replay of
\* legal-edge transactions completes, each choice's votes grew by exactly the
\* number of transactions applied with new state Used for a ballot carrying
\* that choice as selected.
TallyCountsOnlyUsed ==
  \A batch \in Batches(LegalVoteTxPool, MaxBatch) :
    LET r == VoteLedger_apply_transactions(vote_ledger, batch)
    IN  r.raised = NoError =>
          \A c \in Choices :
            r.ledger.votes[c] - vote_ledger.votes[c]
              = Cardinality({k \in 1..Len(r.applied) :
                               /\ r.applied[k].tx.new_state = USED
                               /\ c \in r.applied[k].selected})

\* C8: Legal edges only, as claimed.  Every change of a recorded state that
\* a replay of allowed-state transactions makes follows a legal edge:
\* Created->Issued or Issued->Used for a ballot, NotVoted->Voted for a voter.
LegalEdgesOnly ==
  /\ \A batch \in Batches(VoteTxPool, MaxBatch) :
       LET r == VoteLedger_apply_transactions(vote_ledger, batch)
       IN  \A k \in 1..Len(r.applied) :
             r.applied[k].old_state # r.applied[k].tx.new_state =>
               <<r.applied[k].old_state, r.applied[k].tx.new_state>>
                 \in LegalVoteEdges
  /\ \A batch \in Batches(VoterTxPool, MaxBatch) :
       LET r == VoterLedger_apply_transactions(voter_ledger, batch)
       IN  \A k \in 1..Len(r.applied) :
             r.applied[k].old_state # r.applied[k].tx.new_state =>
               <<r.applied[k].old_state, r.applied[k].tx.new_state>>
                 \in LegalVoterEdges

\* C9: Conflict surfacing, as claimed.  For two transactions of one ballot
\* whose previous_state both equal the ballot's recorded state and whose
\* new_state differ, replaying the two in either order applies neither,
\* reports both, and leaves the same ledger.
ConflictSurfacing ==
  \A t1, t2 \in VoteTxPool :
    ( /\ t1.content = t2.content
      /\ t1.previous_state = vote_ledger.ballots[t1.content]
      /\ t2.previous_state = vote_ledger.ballots[t1.content]
      /\ t1.new_state # t2.new_state ) =>
      LET r12 == VoteLedger_apply_transactions(vote_ledger, <<t1, t2>>)
          r21 == VoteLedger_apply_transactions(vote_ledger, <<t2, t1>>)
      IN  /\ r12.ledger = r21.ledger
          /\ r12.ledger = vote_ledger
          /\ {t1, t2} \subseteq r12.returned
          /\ {t1, t2} \subseteq r21.returned

\* a transaction of the batch that no pass applied
Unresolved(r, t) == \A k \in 1..Len(r.applied) : r.applied[k].tx # t

\* what a finished call leaves on record of transaction t: its return value
\* or the mark on the transaction
OnRecord(r, t) == t \in r.returned \/ r.reiterate[t] = "True"

\* C10: Unresolved transactions are reported, as claimed.  After every
\* completed replay, each transaction of the batch that no pass applied is
\* on record: returned to the caller or marked on the transaction.
UnresolvedReported ==
  /\ \A batch \in Batches(VoteTxPool, MaxBatch) :
       LET r == VoteLedger_apply_transactions(vote_ledger, batch)
       IN  r.raised = NoError =>
             \A t \in Range(batch) : Unresolved(r, t) => OnRecord(r, t)
  /\ \A batch \in Batches(VoterTxPool, MaxBatch) :
       LET r == VoterLedger_apply_transactions(voter_ledger, batch)
       IN  \A t \in Range(batch) : Unresolved(r, t) => OnRecord(r, t)

(***************************************************************************)
(* Properties of the chain, checked under SpecChain                        *)
(***************************************************************************)
\* C2: Chain gate, as claimed.  Every add_block(b) and add_block_2(b) makes
\* b the head when b's previous link is the current head (None for the empty
\* chain), and otherwise rejects b, leaving the head and b's previous link
\* as they were.
ChainGate ==
  [][\A b \in Blocks :
       (chain_call'.block = b /\ chain_call'.op \in {"add_block", "add_block_2"})
         => IF previous_block[b] = current_block
              THEN current_block' = b
              ELSE /\ current_block' = current_block
                   /\ previous_block' = previous_block]_vars

(***************************************************************************)
(* Properties of the nodes, checked under SpecAdmit                        *)
(***************************************************************************)
\* C3: Signature gate.  In every reachable state, every transaction in any
\* node's verified set carries a signature made with its issuer's key over
\* the contents recomputed from the transaction's current fields; no
\* transaction whose signature does not verify is in a verified set.
SignatureGate ==
  \A n \in Nodes :
    \A t \in verified[n] :
      /\ txs[t].signature.signer = txs[t].node
      /\ txs[t].signature.message
           = get_signature_contents(txs[t], txs[t].include_chosen)

\* the issuer of t is one n trusts, and t's signature does not verify
BadSignatureFromTrusted(n, t) ==
  /\ txs[t].node \in node_mapping(n) \cup {ballot_generator}
  /\ txs[t].signature.message
       # get_signature_contents(txs[t], txs[t].include_chosen)

\* C3 witness: a voting computer holds a ballot transaction in its verified
\* set and has rejected a transaction of a trusted issuer whose signature
\* did not verify; a voter computer holds a verified voter transaction.
SignatureGateWitness ==
  /\ \E n \in VotingNodes :
       /\ \E t \in verified[n] : txs[t].kind = "VoteTransaction"
       /\ \E t \in rejected[n] : BadSignatureFromTrusted(n, t)
  /\ \E n \in VoterNodes : verified[n] # {}

\* the issuer of tx is trusted by n: its key is in n's node mapping, or n is
\* a voting computer and the issuer is the ballot generator
Trusted(n, tx) ==
  \/ tx.node \in node_mapping(n)
  \/ (n.role = "VotingComputer" /\ tx.node = ballot_generator)

Verifies(tx) ==
  /\ tx.signature.signer = tx.node
  /\ tx.signature.message = get_signature_contents(tx, tx.include_chosen)

\* C4: Admission routing, as claimed.  Every add_transaction(tx) at a node n
\* adds tx to n's rejected set, and to no other set, iff tx's issuer is not
\* trusted by n or tx's signature does not verify; otherwise it adds tx to
\* n's pending set when tx is an untimestamped ballot transaction and to n's
\* verified set in every other case, and to no other set.
AdmissionRouting ==
  [][Len(deliveries') > Len(deliveries) =>
       LET n == deliveries'[Len(deliveries')].node
           t == deliveries'[Len(deliveries')].tx
           tx == txs[t]
           with(set) == [set EXCEPT ![n] = @ \cup {t}]
       IN  IF ~(Trusted(n, tx) /\ Verifies(tx))
             THEN /\ rejected' = with(rejected)
                  /\ pending' = pending
                  /\ verified' = verified
             ELSE IF tx.kind = "VoteTransaction" /\ ~tx.timestamped
               THEN /\ pending' = with(pending)
                    /\ verified' = verified
                    /\ rejected' = rejected
               ELSE /\ verified' = with(verified)
                    /\ pending' = pending
                    /\ rejected' = rejected]_vars

(***************************************************************************)
(* Properties of the voting flow, checked under SpecNet                    *)
(***************************************************************************)
\* C11: Two-phase signing, as claimed.  For every voting computer and every
\* transaction of its pending set that verifies, the transaction that
\* timestamp_and_sign_transactions leaves is timestamped, carries the time
\* of the call (the same for the whole batch) and verifies against its
\* issuer's key.
TwoPhaseSigning ==
  \A n \in VotingNodes :
    \A t \in pending[n] :
      verify_transaction(txs[t]) =>
        LET signed == timestamp_and_sign(txs[t], now)
        IN  /\ signed.timestamped
            /\ signed.time = now
            /\ verify_transaction(signed)

\* the Issued->Used transaction t was created by n and n has broadcast it
BroadcastBy(n, t) ==
  /\ txs[t].node = n
  /\ txs[t].new_state = USED
  /\ txs[t].timestamped

\* C12: Self-admission on broadcast, as claimed.  Every validly signed
\* Issued->Used transaction that a voting computer created and has
\* broadcast is in that computer's own verified set and not in its
\* rejected set.
SelfAdmission ==
  \A n \in VotingNodes :
    \A t \in DOMAIN txs :
      (BroadcastBy(n, t) /\ Verifies(txs[t])) =>
        (t \in verified[n] /\ t \notin rejected[n])

\* the transactions of a verified set as the ledger reads them
LedgerTx(t) ==
  [content |-> txs[t].content, previous_state |-> txs[t].previous_state,
   new_state |-> txs[t].new_state]

\* C13: A cast vote is counted, as claimed.  Once the ballot generator has
\* issued ballot b, a voting computer has accepted b and has broadcast, the
\* Created->Issued and the Issued->Used transaction of b are in the verified
\* set of the broadcasting computer and of every other voting computer, and
\* the replay of that verified set, in any order, on the initial ledger
\* leaves b in state Used.
CastVoteCounted ==
  \A n \in VotingNodes :
    \A t \in DOMAIN txs :
      BroadcastBy(n, t) =>
        \A m \in VotingNodes :
          /\ IssueKey(txs[t].content) \in verified[m]
          /\ t \in verified[m]
          /\ \A batch \in Orderings({LedgerTx(u) : u \in verified[m]}) :
               VoteLedger_apply_transactions(VoteLedgerInit, batch)
                 .ledger.ballots[txs[t].content] = USED

(***************************************************************************)
(* Properties of the chain's links, checked under SpecChain                *)
(***************************************************************************)
\* following the previous links prev from block b ends at None without
\* visiting a block twice
RECURSIVE EndsAtGenesis(_, _, _)
EndsAtGenesis(prev, b, seen) ==
  IF b = None THEN TRUE
  ELSE IF b \in seen THEN FALSE
  ELSE EndsAtGenesis(prev, prev[b], seen \cup {b})

\* the blocks visited by following the previous links prev from block b
RECURSIVE ReachFrom(_, _, _)
ReachFrom(prev, b, seen) ==
  IF b = None \/ b \in seen THEN seen
  ELSE ReachFrom(prev, prev[b], seen \cup {b})

OnChain(prev, head) == ReachFrom(prev, head, {})

\* C14: Unforked chain, as claimed.  In every state reached by add_block
\* and add_block_2 calls with any blocks, following the previous links from
\* the head visits each block at most once and ends at None.
UnforkedChain == EndsAtGenesis(previous_block, current_block, {})

\* C15: Append-only chain, as claimed.  Every chain operation leaves every
\* block that was on the chain reachable from the head, with the previous
\* link it had; remove_block raises and changes neither the head nor a link.
AppendOnly ==
  [][/\ \A b \in OnChain(previous_block, current_block) :
          /\ b \in OnChain(previous_block', current_block')
          /\ previous_block'[b] = previous_block[b]
     /\ chain_call'.op = "remove_block" =>
          /\ raised' = "Exception"
          /\ current_block' = current_block
          /\ previous_block' = previous_block]_vars

(***************************************************************************)
(* Shared objects                                                          *)
(***************************************************************************)
\* C16: Transactions are not mutated across nodes, as claimed.  No
\* operation changes the timestamped flag, the time or the signature of a
\* transaction that is in some node's verified or rejected set.
NotMutatedAcrossNodes ==
  [][\A t \in DOMAIN txs :
       (\E n \in Nodes : t \in verified[n] \cup rejected[n]) =>
         /\ txs'[t].timestamped = txs[t].timestamped
         /\ txs'[t].time = txs[t].time
         /\ txs'[t].signature = txs[t].signature]_vars

\* Blockchain.current_ledger of the VoteBlockchain and the VoterBlockchain
\* that set_up_election builds on the two ledgers: Blockchain.__init__ keeps
\* the reference it is given (no get_copy), so it reads the ledger object
\* itself
VoteBlockchain_current_ledger == vote_ledger
VoterBlockchain_current_ledger == voter_ledger

\* C17: Ledger snapshots are immutable, as claimed.  The ledger captured as
\* a Blockchain's current_ledger at set-up has, after any apply_transactions
\* calls, the entity states, totals and tallies it had when it was captured.
SnapshotImmutable ==
  /\ VoteBlockchain_current_ledger = VoteLedgerInit
  /\ VoterBlockchain_current_ledger = VoterLedgerInit

(***************************************************************************)
(* Properties of construction, checked under SpecConstruct                 *)
(***************************************************************************)
\* the arguments Transaction.__init__ refuses
BadArguments(kind, content, previous_state, new_state) ==
  \/ content.class # content_class(kind)
  \/ previous_state \notin allowed_states(kind)
  \/ new_state \notin allowed_states(kind)

\* C18: Construction validation.  In every state, for every kind, content,
\* issuing node, pair of states and signature options, the constructor
\* raises and leaves no transaction when the content is not of the kind's
\* content class or a state is not in the kind's allowed states, and
\* otherwise returns a transaction whose signature verifies against its
\* issuer's key; and no construction changes a node's buckets.
ConstructionValidation ==
  /\ [](\A kind \in TransactionKinds, content \in Contents, node \in Nodes,
           previous_state \in AllStates, new_state \in AllStates,
           timestamped \in BOOLEAN, include_chosen \in BOOLEAN :
          LET r == Transaction_init(kind, content, node, previous_state,
                                    new_state, timestamped, include_chosen)
          IN  IF BadArguments(kind, content, previous_state, new_state)
                THEN r.raised # NoError /\ r.tx = NoTransaction
                ELSE r.raised = NoError /\ r.tx.node = node /\ Verifies(r.tx))
  /\ [][txs' # txs \/ raised' # raised =>
          UNCHANGED <<pending, verified, rejected>>]_vars

\* C18 witness: a ballot transaction that signs the chosen flags was
\* constructed for a filled ballot, and a later construction raised.
ConstructionValidationWitness ==
  /\ ConstructedKey \in DOMAIN txs
  /\ txs[ConstructedKey].kind = "VoteTransaction"
  /\ txs[ConstructedKey].include_chosen
  /\ \E c \in Choices :
       /\ chosen[txs[ConstructedKey].content][c]
       /\ Verifies(txs[ConstructedKey])
  /\ raised = "Exception"

(***************************************************************************)
(* Properties of failures and of the buckets, checked under SpecAdmit      *)
(***************************************************************************)
\* C19: Failures are outcome values, as claimed.  No operation on a node,
\* whatever it is given (an untrusted issuer, a bad signature, an
\* untimestamped transaction at a voter computer or at the ballot
\* generator), ends by raising an error.
FailuresAreOutcomes == raised = NoError

\* C20: Rejected transactions are retained and never ledger-eligible, as
\* claimed.  Over every operation each node's verified set and rejected set
\* keep what they held, and a transaction that is in a node's rejected set
\* is not in that node's verified set afterwards.
RejectedRetained ==
  [][\A n \in Nodes :
       /\ verified[n] \subseteq verified'[n]
       /\ rejected[n] \subseteq rejected'[n]
       /\ \A t \in rejected[n] : t \notin verified'[n]]_vars

(***************************************************************************)
(* Properties of the voter computers, checked under SpecNet                *)
(***************************************************************************)
\* VoterComputer.has_voter_voted: the body is `pass`, so the call returns
\* Python's None whatever the node holds; begin_voting_process reads it as
\* "has not voted"
has_voter_voted(n, voter) == "None"

\* the truth value Python gives a returned value
Truthy(value) == value = "True"

\* node n holds a verified NotVoted->Voted transaction of the voter
HoldsVoted(n, voter) ==
  \E t \in verified[n] :
    /\ txs[t].kind = "VoterTransaction"
    /\ txs[t].content = voter
    /\ txs[t].new_state = VOTED

\* C21: Voters vote only once, as claimed.  Whenever a voter computer holds
\* a verified NotVoted->Voted transaction of a voter, its has_voter_voted
\* reports that the voter has voted.
VotersVoteOnce ==
  \A n \in VoterNodes, voter \in Voters :
    HoldsVoted(n, voter) => Truthy(has_voter_voted(n, voter))

(***************************************************************************)
(* Properties of the counters, checked under SpecLedger                    *)
(***************************************************************************)
\* the number of entities recorded in state s
CountIn(states, s) == Cardinality({e \in DOMAIN states : states[e] = s})

\* the totals after one decrement of old_state and one increment of
\* new_state (the two cancel when the states are the same)
MovedTotals(totals, old_state, new_state) ==
  [s \in DOMAIN totals |->
     totals[s] - (IF s = old_state THEN 1 ELSE 0)
               + (IF s = new_state THEN 1 ELSE 0)]

\* C22: Counters mirror entity states.  In every ledger state reached by
\* apply_transactions calls, the total of each state is the number of
\* entities recorded in that state and is not negative; and the replay of
\* one transaction whose previous_state is the entity's recorded state
\* records new_state for the entity, takes 1 from the total of the old state
\* and adds 1 to the total of the new state.
CountersMirrorStates ==
  /\ \A s \in VoteAllowedStates :
       /\ vote_ledger.totals[s] = CountIn(vote_ledger.ballots, s)
       /\ vote_ledger.totals[s] >= 0
  /\ \A s \in VoterAllowedStates :
       /\ voter_ledger.totals[s] = CountIn(voter_ledger.voters, s)
       /\ voter_ledger.totals[s] >= 0
  /\ \A tx \in VoteTxPool :
       tx.previous_state = vote_ledger.ballots[tx.content] =>
         LET r == VoteLedger_apply_transactions(vote_ledger, <<tx>>)
         IN  /\ r.ledger.ballots
                  = [vote_ledger.ballots EXCEPT ![tx.content] = tx.new_state]
             /\ r.ledger.totals
                  = MovedTotals(vote_ledger.totals, tx.previous_state,
                                tx.new_state)
  /\ \A tx \in VoterTxPool :
       tx.previous_state = voter_ledger.voters[tx.content] =>
         LET r == VoterLedger_apply_transactions(voter_ledger, <<tx>>)
         IN  /\ r.ledger.voters
                  = [voter_ledger.voters EXCEPT ![tx.content] = tx.new_state]
             /\ r.ledger.totals
                  = MovedTotals(voter_ledger.totals, tx.previous_state,
                                tx.new_state)

\* C22 witness: the ledger of the example: of two ballots the first is Used
\* and the second Created (Created=1, Issued=0, Used=1), and a voter is
\* recorded as Voted.
CountersMirrorStatesWitness ==
  /\ vote_ledger.ballots[1] = USED
  /\ vote_ledger.ballots[2] = CREATED
  /\ vote_ledger.totals = [s \in VoteAllowedStates |->
                             IF s = ISSUED THEN 0 ELSE 1]
  /\ \E v \in Voters : voter_ledger.voters[v] = VOTED

(***************************************************************************)
(* Properties of the operations of the flow, checked under SpecNet         *)
(***************************************************************************)
\* C23: Broadcast delivers the whole batch.  In every state and for every
\* voting computer n, broadcast_transactions at n returns without raising,
\* leaves n's pending set empty, and leaves every transaction that was in
\* it in the verified or the rejected set of n and of every node of n's
\* mapping.
BroadcastDeliversBatch ==
  \A n \in VotingNodes :
    LET bk == VotingComputer_broadcast_transactions(n).buckets
    IN  /\ bk.raised = NoError
        /\ bk.pending[n] = {}
        /\ \A t \in pending[n] :
             \A m \in {n} \cup node_mapping(n) :
               t \in bk.verified[m] \cup bk.rejected[m]

\* C23 witness: a voting computer has broadcast a batch of two, the
\* issuance and the use of a ballot: its pending set is empty and both
\* transactions are in the verified or the rejected set of every voting
\* computer.
BroadcastDeliversBatchWitness ==
  \E n \in VotingNodes :
    \E t \in DOMAIN txs :
      /\ BroadcastBy(n, t)
      /\ pending[n] = {}
      /\ \A m \in VotingNodes :
           /\ t \in verified[m] \cup rejected[m]
           /\ IssueKey(txs[t].content) \in verified[m] \cup rejected[m]

\* the test of VotingComputer.create_transaction (base.py 86-89): node n's
\* pending set holds a transaction of the ballot whose new state is Issued
BallotIssuedAt(n, ballot) ==
  \E t \in pending[n] :
    txs[t].content = ballot /\ txs[t].new_state = ISSUED

\* the ballots a voter holds: retrieved and not yet submitted
HeldBallots == Ballots \ (available_ballots \cup paper_trail)

\* C24: Use requires issuance, as claimed.  Every Issued->Used transaction
\* was created by a voting computer that has received the ballot's issuance
\* transaction, and every voting computer accepts (create_transaction
\* returns True for) every ballot that was issued and is still held by its
\* voter, also after a broadcast.
UseRequiresIssuance ==
  /\ \A t \in DOMAIN txs :
       (txs[t].kind = "VoteTransaction" /\ txs[t].new_state = USED) =>
         IssueKey(txs[t].content)
           \in pending[txs[t].node] \cup verified[txs[t].node]
                 \cup rejected[txs[t].node]
  /\ \A n \in VotingNodes, ballot \in HeldBallots : BallotIssuedAt(n, ballot)

\* the issuance transactions of ballot b constructed so far
IssuanceOf(tr, b) ==
  {t \in DOMAIN tr :
     /\ tr[t].kind = "VoteTransaction"
     /\ tr[t].content = b
     /\ tr[t].previous_state = CREATED
     /\ tr[t].new_state = ISSUED}

\* C25: Each ballot is issued at most once.  Every generated ballot is
\* either available and has no issuance transaction, or was returned once
\* and has exactly one; a retrieve_ballot call that returns a ballot removes
\* exactly that ballot from the available ones and puts one new
\* untimestamped Created->Issued transaction of the ballot generator in the
\* pending set of every voting computer, and in no other set; with no
\* ballot available no issuance transaction is created.
IssuedAtMostOnce ==
  /\ [](/\ available_ballots \subseteq Ballots
        /\ \A b \in Ballots :
             Cardinality(IssuanceOf(txs, b))
               = IF b \in available_ballots THEN 0 ELSE 1)
  /\ [][/\ available_ballots' # available_ballots =>
             \E b \in available_ballots :
               /\ available_ballots' = available_ballots \ {b}
               /\ \E t \in IssuanceOf(txs', b) :
                    /\ DOMAIN txs' = DOMAIN txs \cup {t}
                    /\ t \notin DOMAIN txs
                    /\ txs'[t].node = ballot_generator
                    /\ ~txs'[t].timestamped
                    /\ \A n \in Nodes :
                         /\ pending'[n] = IF n \in node_mapping(ballot_generator)
                                            THEN pending[n] \cup {t}
                                            ELSE pending[n]
                         /\ verified'[n] = verified[n]
                         /\ rejected'[n] = rejected[n]
        /\ available_ballots = {} =>
             \A b \in Ballots : IssuanceOf(txs', b) = IssuanceOf(txs, b)]_vars

\* C25 witness: every ballot has been returned, and the issuance
\* transaction of each is pending at every voting computer.
IssuedAtMostOnceWitness ==
  /\ available_ballots = {}
  /\ \A b \in Ballots, n \in VotingNodes : IssuanceOf(txs, b) \subseteq pending[n]
  /\ \A b \in Ballots : IssuanceOf(txs, b) # {}

\* C26: Voter transactions spread immediately.  Every step that constructs
\* a VoterTransaction (VoterComputer.create_transaction) ends without an
\* error, with the new timestamped transaction in the verified set of its
\* creator and of every node of the creator's mapping, and in the rejected
\* set of no node.
VoterTransactionsSpread ==
  [][\A t \in DOMAIN txs' \ DOMAIN txs :
       txs'[t].kind = "VoterTransaction" =>
         /\ txs'[t].timestamped
         /\ txs'[t].node \in VoterNodes
         /\ raised' = NoError
         /\ \A m \in {txs'[t].node} \cup node_mapping(txs'[t].node) :
              t \in verified'[m]
         /\ \A m \in Nodes : t \notin rejected'[m]]_vars

\* C26 witness: a voter computer has created a transaction and a peer of
\* its mapping holds it as verified.
VoterTransactionsSpreadWitness ==
  \E t \in DOMAIN txs :
    /\ txs[t].kind = "VoterTransaction"
    /\ t \in verified[txs[t].node]
    /\ node_mapping(txs[t].node) # {}
    /\ \A m \in node_mapping(txs[t].node) : t \in verified[m]

\* the entity e has a transaction in the batch
InBatch(batch, e) == \E i \in 1..Len(batch) : batch[i].content = e

\* the call r applied a transaction of entity e
AppliedTo(r, e) == \E k \in 1..Len(r.applied) : r.applied[k].tx.content = e

\* the batch without the transactions of entity e
Without(batch, e) == SelectSeq(batch, LAMBDA t : t.content # e)

\* the batch holds a transaction that lines up with the recorded state of e
LinesUp(states, batch, e) ==
  \E i \in 1..Len(batch) :
    batch[i].content = e /\ batch[i].previous_state = states[e]

UsedBallots(ledger) == Cardinality({b \in Ballots : ledger.ballots[b] = USED})

\* C28: Tallies never decrease.  The tally of every choice starts at 0, and
\* no step (no apply_transactions call, completed or raising) lowers the
\* tally of a choice or the number of ballots in state Used.
TalliesNeverDecrease ==
  /\ \A c \in Choices : vote_ledger.votes[c] = 0
  /\ [][/\ \A c \in Choices : vote_ledger'.votes[c] >= vote_ledger.votes[c]
        /\ UsedBallots(vote_ledger') >= UsedBallots(vote_ledger)
        /\ vote_ledger'.totals[USED] >= vote_ledger.totals[USED]]_vars

\* Block.is_genesis_block (base.py 445-449): True when previous_block is
\* truthy, that is when the block has a previous block
is_genesis_block(block) == IF previous_block[block] # None THEN TRUE ELSE FALSE

\* C29: Genesis test.  For every block built, is_genesis_block returns true
\* exactly when the block has no previous block.
GenesisTest ==
  \A block \in 1..num_blocks :
    is_genesis_block(block) <=> previous_block[block] = None

\* C30: Buckets are disjoint.  In every reachable state and at every node
\* the pending, verified and rejected sets are pairwise disjoint; so a
\* transaction a node has put in verified or rejected on another node's
\* broadcast is not in that node's pending set.
BucketsDisjoint ==
  \A n \in Nodes :
    /\ pending[n] \cap verified[n] = {}
    /\ pending[n] \cap rejected[n] = {}
    /\ verified[n] \cap rejected[n] = {}

\* C31: Replicas converge.  Whenever no voting computer holds a pending
\* transaction (each one that held any has run broadcast_transactions, in
\* whatever order), all voting computers hold the same verified set and the
\* same rejected set; and in every state reached by VoterComputer
\* create_transaction calls all voter computers hold the same verified set.
ReplicasConverge ==
  /\ (\A n \in VotingNodes : pending[n] = {}) =>
       \A n, m \in VotingNodes :
         verified[n] = verified[m] /\ rejected[n] = rejected[m]
  /\ \A n, m \in VoterNodes : verified[n] = verified[m]

====
